---------------------------- MODULE Spec2Model ----------------------------
(***************************************************************************)
(* Model of DataIngestion.py: the download -> validate -> parse ->         *)
(* serialize -> upload pipeline driven by DataIngestion.main.              *)
(*                                                                         *)
(* Strings are sequences of one-character strings, so that lower(),        *)
(* strip(), split() and the substring test are computed as Python          *)
(* computes them.  File contents are sequences of tokens ("bytes").        *)
(***************************************************************************)
EXTENDS Integers, Sequences, FiniteSets, TLC

(***************************************************************************)
(* Bounds of the model.                                                    *)
(***************************************************************************)
MaxRuns == 2          \* consecutive runs of the script on one machine
MaxCtLen == 5         \* longest content type given to is_downloadable alone
MaxUrlLen == 4        \* longest url argument given to the extension rule alone
MaxRows == 2          \* most data rows of a worksheet given to parse_file alone

(***************************************************************************)
(* Return codes (lines 41-47).                                             *)
(***************************************************************************)
SUCCESS == 0
GENERIC_ERR == 1
IMPORT_ERR == 2
ATTRIBUTE_ERR == 3
INVALID_ARG_ERR == 4
S3_BUCKET_CR_ERR == 5

\* requests.codes.ok
HTTP_OK == 200
HTTP_NOT_FOUND == 404

(***************************************************************************)
(* String helpers: what the Python str methods used by the script do.      *)
(***************************************************************************)
UPPER == <<"A","B","C","D","E","F","G","H","I","J","K","L","M","N","O","P","Q","R","S","T","U","V","W","X","Y","Z">>
LOWER == <<"a","b","c","d","e","f","g","h","i","j","k","l","m","n","o","p","q","r","s","t","u","v","w","x","y","z">>

\* str.lower() on one character
LowerChar(c) ==
    IF \E i \in 1..26 : UPPER[i] = c
    THEN LOWER[CHOOSE i \in 1..26 : UPPER[i] = c]
    ELSE c

\* str.lower()
Lower(s) == [i \in 1..Len(s) |-> LowerChar(s[i])]

\* the Python test  sub in s  on strings
Contains(sub, s) ==
    \E i \in 0..(Len(s) - Len(sub)) : SubSeq(s, i + 1, i + Len(sub)) = sub

WHITESPACE == {" "}
QUOTE == {"'"}

\* str.strip(chars): drop leading and trailing characters of the set cs
RECURSIVE LStrip(_, _)
LStrip(s, cs) ==
    IF Len(s) > 0 /\ s[1] \in cs THEN LStrip(Tail(s), cs) ELSE s

RECURSIVE RStrip(_, _)
RStrip(s, cs) ==
    IF Len(s) > 0 /\ s[Len(s)] \in cs
    THEN RStrip(SubSeq(s, 1, Len(s) - 1), cs)
    ELSE s

Strip(s, cs) == RStrip(LStrip(s, cs), cs)

\* str.split(sep): the list of the segments between separators
RECURSIVE Split(_, _)
Split(s, sep) ==
    IF \E i \in 1..Len(s) : s[i] = sep
    THEN LET i == CHOOSE k \in 1..Len(s) :
                      s[k] = sep /\ \A j \in 1..(k - 1) : s[j] # sep
         IN  <<SubSeq(s, 1, i - 1)>> \o Split(SubSeq(s, i + 1, Len(s)), sep)
    ELSE <<s>>

(***************************************************************************)
(* Values of the sample inputs.                                            *)
(***************************************************************************)
NoneStr == <<"None">>     \* Python None where a string is expected

URL_XLS == <<"h","/","f",".","x","l","s">>
URL_CSV == <<"h","/","f",".","c","s","v">>
URL_NODOT == <<"h","/","f">>
URL_JSON == <<"h","/","d",".","j","s","o","n">>
URL_SPACE == <<"h","/","f","."," ","x","l","s">>

CT_HTML == <<"t","e","x","t","/","h","t","m","l",";"," ","c","h","a","r","s","e","t","=","u","t","f","-","8">>
CT_EXCEL == <<"a","p","p","l","i","c","a","t","i","o","n","/","v","n","d",".","m","s","-","e","x","c","e","l">>
CT_EXCEL_UC == <<"A","p","p","l","i","c","a","t","i","o","n","/","V","N","D",".","M","S","-","E","X","C","E","L">>
CT_JSON == <<"a","p","p","l","i","c","a","t","i","o","n","/","j","s","o","n">>
CT_UNKNOWN == <<"a","p","p","l","i","c","a","t","i","o","n","/","x","-","u","n","k","n","o","w","n">>

EXT_XLS == <<".","x","l","s">>
EXT_XLB == <<".","x","l","b">>
EXT_JSON == <<".","j","s","o","n">>

(***************************************************************************)
(* Content type constants (lines 53-55).                                   *)
(***************************************************************************)
CONTENT_TYPE_TEXT == <<"t","e","x","t">>
CONTENT_TYPE_HTML == <<"h","t","m","l">>

(***************************************************************************)
(* Local file name paths (lines 57-63).  BASE_PATH stands for              *)
(* <script dir>/output/dataingestion, the initial OUTPUT_FILE_PATH.        *)
(***************************************************************************)
BASE_PATH == <<"o">>
OUTPUT_FILE_JSON == BASE_PATH \o EXT_JSON


(***************************************************************************)
(* The collaborators' data.                                                *)
(***************************************************************************)
\* mimetypes' MIME type -> extensions registry (strict and non-strict
\* tables merged, as guess_all_extensions(type, False) reads them)
MimeRegistry(type) ==
    CASE type = CT_EXCEL -> {EXT_XLS, EXT_XLB}
      [] type = CT_JSON  -> {EXT_JSON}
      [] OTHER           -> {}

\* response bodies: the empty body, a non-workbook document, two workbooks
BODY_EMPTY == <<>>
BODY_JUNK == <<"junk">>
BODY_WB_A == <<"xls", "A">>
BODY_WB_B == <<"xls", "B">>
Bodies == {BODY_EMPTY, BODY_JUNK, BODY_WB_A, BODY_WB_B}

NaN == "<NaN>"        \* a missing cell of a worksheet
None == "<None>"      \* Python None as a cell value

SHEET_1 == <<"S","1">>
SHEET_0 == <<"S","0">>
SHEET_9 == <<"S","9">>

\* a workbook of one sheet S1 with the header Code, Name, written out cell
\* by cell: <<"xls", "T", row 1 cell 1, row 1 cell 2, row 2 cell 1, ...>>
IsSheetBytes(bytes) ==
    /\ Len(bytes) >= 2
    /\ bytes[1] = "xls" /\ bytes[2] = "T"
    /\ (Len(bytes) - 2) % 2 = 0

SheetBytes(rows) ==
    <<"xls", "T">> \o [i \in 1..(2 * Len(rows)) |->
                          rows[(i + 1) \div 2][2 - (i % 2)]]

\* pd.ExcelFile(path): the workbook held by a file content (a function from
\* sheet names to tables), defined for the contents that are workbooks
IsWorkbook(bytes) == bytes \in {BODY_WB_A, BODY_WB_B} \/ IsSheetBytes(bytes)

Workbook(bytes) ==
    IF bytes = BODY_WB_A
    THEN (SHEET_1 :> [header |-> <<"Code", "Name">>,
                      rows |-> << <<"A1", "Alpha">>, <<"B2", NaN>> >>])
         @@ (SHEET_0 :> [header |-> <<"Code", "Name">>, rows |-> << >>])
    ELSE IF bytes = BODY_WB_B
    THEN (SHEET_1 :> [header |-> <<"Code", "Name">>,
                      rows |-> << <<"C3", "Gamma">> >>])
    ELSE (SHEET_1 :> [header |-> <<"Code", "Name">>,
                      rows |-> [r \in 1..((Len(bytes) - 2) \div 2) |->
                                   <<bytes[2 * r + 1], bytes[2 * r + 2]>>]])

(***************************************************************************)
(* State.                                                                  *)
(***************************************************************************)
VARIABLES
    argv,               \* sys.argv[1:], the positional inputs of the run
    bucket,             \* self.__aws_bucket_name
    url,                \* self.__url_file_path
    sheet,              \* self.__sheet_name
    response,           \* self.__response: <<>> (None) or <<response>>
    OUTPUT_FILE_PATH,   \* the global path of the raw file
    file_ext,           \* main's local file_ext
    ext_list,           \* main's local ext_list
    fs,                 \* local files: path -> content, for existing files
    buckets,            \* names of the S3 buckets that exist
    blobs,              \* S3 objects under JSON_FILE_PATH_ON_AWS: bucket -> body
    pc,                 \* position of the run in main
    exit,               \* exit statuses of the process: <<>> while running
    run,                \* number of the current run
    calls,              \* stages invoked in this run, with what they reported
    ops,                \* collaborator calls issued in this run, in order
    touched,            \* local paths created, overwritten or deleted in this run
    raised,             \* stages of this run in which an exception was raised
    fs_before,          \* the local files when download was called in this run
    put_response,       \* what put_object returned in this run, if it returned
    s3_calls,           \* <<bucket, call>>: listings, creations of earlier runs
    prev_outcome        \* <<stage, exit status>> of the run before, kept for
                        \* comparison when that run failed in connect

vars == <<argv, bucket, url, sheet, response, OUTPUT_FILE_PATH, file_ext,
          ext_list, fs, buckets, blobs, pc, exit, run, calls, ops, touched,
          raised, fs_before, put_response, s3_calls,
          prev_outcome>>

runVars == <<argv, run>>
fieldVars == <<bucket, url, sheet>>
extVars == <<OUTPUT_FILE_PATH, file_ext, ext_list>>
s3Vars == <<buckets, blobs>>
histVars == <<s3_calls, prev_outcome>>

(***************************************************************************)
(* Inputs.                                                                 *)
(***************************************************************************)
BUCKET_LC == <<"b","k">>
BUCKET_UC == <<"B","k">>

\* command lines: sys.argv[1:]
ArgvSamples ==
    { <<b, u, s>> : b \in {BUCKET_LC}, u \in {URL_XLS, URL_JSON},
                    s \in {SHEET_1, SHEET_0, SHEET_9} }
    \cup { <<BUCKET_UC, URL_XLS, SHEET_1>>,
           <<BUCKET_LC, URL_CSV, SHEET_1>>,
           <<BUCKET_LC, URL_NODOT, SHEET_1>>,
           <<BUCKET_LC, URL_SPACE, SHEET_1>>,
           <<<<"'">> \o BUCKET_LC \o <<"'">>, <<" ">> \o URL_XLS, SHEET_1 \o <<" ">>>>,
           <<BUCKET_LC, URL_XLS, <<" ">>>>,
           <<BUCKET_LC, <<"'", "'">>, SHEET_1>>,
           <<BUCKET_LC, URL_XLS>>,
           <<BUCKET_LC, URL_XLS, SHEET_1, SHEET_1>> }

\* response headers: a function defined on the header names that are present
HeaderSamples ==
    { << >> } \cup { ("Content-Type" :> ct) :
                     ct \in {CT_HTML, CT_EXCEL_UC, CT_JSON, CT_UNKNOWN} }

\* what requests.get can return
Responses ==
    [status_code : {HTTP_OK, HTTP_NOT_FOUND}, headers : HeaderSamples,
     content : Bodies]

(***************************************************************************)
(* The stages as functions of what they read.                              *)
(***************************************************************************)
\* response.headers.get('Content-Type', None)
ContentTypeOf(resp) ==
    IF "Content-Type" \in DOMAIN resp.headers
    THEN resp.headers["Content-Type"]
    ELSE NoneStr

\* is_downloadable comparing the content type without lower()
is_downloadable_ret_cased(resp) ==
    LET content_type == ContentTypeOf(resp)
    IN  IF content_type = NoneStr
        THEN FALSE
        ELSE /\ ~Contains(CONTENT_TYPE_TEXT, content_type)
             /\ ~Contains(CONTENT_TYPE_HTML, content_type)

\* is_downloadable (lines 285-303): the value it returns for a response
is_downloadable_ret(resp) ==
    LET content_type == ContentTypeOf(resp)
    IN  IF content_type = NoneStr
        THEN FALSE
        ELSE /\ ~Contains(CONTENT_TYPE_TEXT, Lower(content_type))
             /\ ~Contains(CONTENT_TYPE_HTML, Lower(content_type))

\* the statement of is_downloadable's try block that raises, if one does:
\* headers.get (287), the lower() of the text test (292) or of the html
\* test (295)
GuardFaults == {"none", "get", "lower_text", "lower_html"}

guard_fault_ok(resp, fault) ==
    fault \in {"lower_text", "lower_html"} => ContentTypeOf(resp) # NoneStr

\* what is_downloadable returns after the except clause (299-301): the
\* ret_status reached when the statement raised, True from line 285 unless
\* the text test had set it to False
is_downloadable_raised_ret(resp, fault) ==
    IF fault = "lower_html"
    THEN ~Contains(CONTENT_TYPE_TEXT, Lower(ContentTypeOf(resp)))
    ELSE TRUE

\* main, lines 521-524: the extension derived from the url
FileExt(u) ==
    LET parts == Split(u, ".")
        last == IF Len(parts) > 0 THEN parts[Len(parts)] ELSE << >>
    IN  <<".">> \o Strip(last, WHITESPACE)

\* get_extensions(False, True) (lines 317-336): the extensions that the
\* response's content type implies (guess_all_extensions lowers the type)
get_extensions(resp) ==
    LET content_type == ContentTypeOf(resp)
    IN  IF content_type # NoneStr
        THEN MimeRegistry(Lower(content_type))
        ELSE {}

\* DataFrame.empty
df_empty(table) == Len(table.rows) = 0 \/ Len(table.header) = 0

\* a where that leaves the missing cells as they are
where_notnull_kept(table) == table

\* xls_data_df.where(pd.notnull(xls_data_df), None)  (lines 408-409)
where_notnull(table) ==
    [table EXCEPT !.rows =
        [r \in 1..Len(table.rows) |->
            [c \in 1..Len(table.rows[r]) |->
                IF table.rows[r][c] = NaN THEN None ELSE table.rows[r][c]]]]

\* records of the rows after the first one only
to_dict_records_tail(table) ==
    [r \in 1..(Len(table.rows) - 1) |->
        [c \in 1..Len(table.header) |->
            <<table.header[c], table.rows[r + 1][c]>>]]

\* xls_data_df.to_dict('records') (line 413): one dict per row, a dict being
\* the sequence of its <<key, value>> items
to_dict_records(table) ==
    [r \in 1..Len(table.rows) |->
        [c \in 1..Len(table.header) |-> <<table.header[c], table.rows[r][c]>>]]

RECURSIVE Flatten(_)
Flatten(ss) == IF ss = << >> THEN << >> ELSE Head(ss) \o Flatten(Tail(ss))

\* json.dump of one value: None is written as null, a float nan as NaN
json_value(v) ==
    IF v = None THEN <<"null">>
    ELSE IF v = NaN THEN <<"NaN">>
    ELSE <<"str", v>>

json_record(rec) ==
    <<"{">> \o Flatten([i \in 1..Len(rec) |-> <<rec[i][1], ":">> \o json_value(rec[i][2])])
            \o <<"}">>

\* json.dump(dict_list_records, file_object) (line 422): the text written
json_dump(records) ==
    <<"[">> \o Flatten([i \in 1..Len(records) |-> json_record(records[i])])
            \o <<"]">>

\* file operations on fs
isfile(f, path) == path \in DOMAIN f
remove(f, path) == [q \in (DOMAIN f) \ {path} |-> f[q]]
write(f, path, content) == (path :> content) @@ f

\* download trusting the write call: no check of the size on disk
download_run_unverified(f, path, resp, fault, k) ==
    IF resp.status_code # HTTP_OK
    THEN [fs |-> f, ret |-> FALSE, touched |-> {}, ops |-> << >>,
          exc |-> FALSE]
    ELSE IF fault # "none"
    THEN [fs |-> f, ret |-> FALSE, touched |-> {}, ops |-> <<"write_raw">>,
          exc |-> TRUE]
    ELSE [fs |-> write(f, path, resp.content), ret |-> TRUE,
          touched |-> {path}, ops |-> <<"write_raw">>, exc |-> FALSE]

\* download that keeps the old file and opens it for appending
download_run_append(f, path, resp, fault, k) ==
    IF resp.status_code # HTTP_OK
    THEN [fs |-> f, ret |-> FALSE, touched |-> {}, ops |-> << >>,
          exc |-> FALSE]
    ELSE IF fault # "none"
    THEN [fs |-> f, ret |-> FALSE, touched |-> {}, ops |-> <<"write_raw">>,
          exc |-> TRUE]
    ELSE LET old == IF isfile(f, path) THEN f[path] ELSE << >>
             f2 == write(f, path, old \o resp.content)
         IN  [fs |-> f2, ret |-> Len(f2[path]) > 0,
              touched |-> {path}, ops |-> <<"write_raw">>, exc |-> FALSE]

(***************************************************************************)
(* download (lines 345-380) as a function of the files, the path, the      *)
(* response and the fault that the file system raises, if any: "remove"    *)
(* (os.remove raises), "open" (open raises) or "write" (write raises after *)
(* k bytes).  It yields the files left, the value returned, the paths      *)
(* touched and the file system calls issued.                               *)
(***************************************************************************)
DownloadFaults == {"none", "remove", "open", "write"}

\* a download that writes the body whatever the status code
download_run_any_status(f, path, resp, fault, k) ==
    LET old == isfile(f, path)
        f2 == write(IF old THEN remove(f, path) ELSE f, path, resp.content)
    IN  [fs |-> f2,
         ret |-> isfile(f2, path) /\ Len(f2[path]) > 0,
         touched |-> {path},
         ops |-> (IF old THEN <<"remove">> ELSE << >>) \o <<"write_raw">>,
         exc |-> FALSE]

download_run(f, path, resp, fault, k) ==
    IF resp.status_code # HTTP_OK
    THEN [fs |-> f, ret |-> FALSE, touched |-> {}, ops |-> << >>,
          exc |-> FALSE]
    ELSE IF isfile(f, path) /\ fault = "remove"
    THEN [fs |-> f, ret |-> FALSE, touched |-> {}, ops |-> <<"remove">>,
          exc |-> TRUE]
    ELSE LET old == isfile(f, path)
             f1 == IF old THEN remove(f, path) ELSE f
             t1 == IF old THEN {path} ELSE {}
             o1 == (IF old THEN <<"remove">> ELSE << >>) \o <<"write_raw">>
         IN  IF fault = "open"
             THEN [fs |-> f1, ret |-> FALSE, touched |-> t1, ops |-> o1,
                   exc |-> TRUE]
             ELSE IF fault = "write"
             THEN [fs |-> write(f1, path, SubSeq(resp.content, 1, k)),
                   ret |-> FALSE, touched |-> {path}, ops |-> o1,
                   exc |-> TRUE]
             ELSE LET f2 == write(f1, path, resp.content)
                  IN  [fs |-> f2,
                       ret |-> isfile(f2, path) /\ Len(f2[path]) > 0,
                       touched |-> {path}, ops |-> o1, exc |-> FALSE]

\* the faults that can happen in a call of download
download_fault_ok(f, path, resp, fault) ==
    \/ fault = "none"
    \/ fault = "remove" /\ resp.status_code = HTTP_OK /\ isfile(f, path)
    \/ fault \in {"open", "write"} /\ resp.status_code = HTTP_OK

(***************************************************************************)
(* parse_file (lines 390-445) as a function of the files, the raw path,    *)
(* the sheet name and the fault raised while the JSON file is written:     *)
(* "open" (open raises) or "write" (json.dump raises after k tokens).      *)
(***************************************************************************)
ParseFaults == {"none", "open", "write"}

\* the data frame that parse_file converts, when it gets that far
parse_reads_table(f, path, sh) ==
    /\ isfile(f, path)
    /\ IsWorkbook(f[path])
    /\ Strip(sh, WHITESPACE) \in DOMAIN Workbook(f[path])
    /\ sh \in DOMAIN Workbook(f[path])

\* pd.ExcelFile raises on a file that is no workbook, pd.read_excel on a
\* sheet name that the workbook does not have
parse_raises(f, path, sh) ==
    \/ ~isfile(f, path)
    \/ ~IsWorkbook(f[path])
    \/ /\ Strip(sh, WHITESPACE) \in DOMAIN Workbook(f[path])
       /\ sh \notin DOMAIN Workbook(f[path])

\* line 401 is reached: the file is a workbook with the stripped sheet name
parse_loads_sheet(f, path, sh) ==
    /\ isfile(f, path)
    /\ IsWorkbook(f[path])
    /\ Strip(sh, WHITESPACE) \in DOMAIN Workbook(f[path])

parse_writes(f, path, sh) ==
    /\ parse_reads_table(f, path, sh)
    /\ ~df_empty(Workbook(f[path])[sh])
    /\ to_dict_records(where_notnull(Workbook(f[path])[sh])) # << >>

parse_run(f, path, sh, fault, k) ==
    IF ~parse_writes(f, path, sh)
    THEN [fs |-> f, ret |-> FALSE, touched |-> {},
          ops |-> IF parse_loads_sheet(f, path, sh)
                  THEN <<"excel", "read_excel">>
                  ELSE <<"excel">>,
          exc |-> parse_raises(f, path, sh)]
    ELSE LET dict_list_records ==
                 to_dict_records(where_notnull(Workbook(f[path])[sh]))
             text == json_dump(dict_list_records)
         IN  IF fault = "open"
             THEN [fs |-> f, ret |-> FALSE, touched |-> {},
                   ops |-> <<"excel", "read_excel", "write_json">>, exc |-> TRUE]
             ELSE IF fault = "write"
             THEN [fs |-> write(f, OUTPUT_FILE_JSON, SubSeq(text, 1, k)),
                   ret |-> FALSE, touched |-> {OUTPUT_FILE_JSON},
                   ops |-> <<"excel", "read_excel", "write_json">>, exc |-> TRUE]
             ELSE LET f2 == write(f, OUTPUT_FILE_JSON, text)
                  IN  [fs |-> f2,
                       ret |-> /\ isfile(f2, OUTPUT_FILE_JSON)
                               /\ Len(f2[OUTPUT_FILE_JSON]) > 0,
                       touched |-> {OUTPUT_FILE_JSON},
                       ops |-> <<"excel", "read_excel", "write_json">>, exc |-> FALSE]

(***************************************************************************)
(* Initial state: the first run on a machine without output files.  The    *)
(* account may already own a bucket whose name differs in case.            *)
(***************************************************************************)
Init ==
    /\ argv \in ArgvSamples
    /\ bucket = NoneStr /\ url = NoneStr /\ sheet = NoneStr
    /\ response = << >>
    /\ OUTPUT_FILE_PATH = BASE_PATH
    /\ file_ext = << >>
    /\ ext_list = {}
    /\ fs = << >>
    /\ buckets \in {{}, {BUCKET_UC}}
    /\ blobs = << >>
    /\ pc = "argv"
    /\ exit = << >>
    /\ run = 1
    /\ calls = << >>
    /\ ops = << >>
    /\ touched = {}
    /\ raised = {}
    /\ fs_before = << >>
    /\ put_response = "unset"
    /\ s3_calls = {}
    /\ prev_outcome = << >>

\* the stages in the order in which main invokes them
STAGES == <<"get_cmd_argv", "connect", "is_downloadable", "get_extensions",
            "download", "parse_file", "upload_to_aws_s3">>

\* the stage reported res to main
Called(stage, res) == calls' = Append(calls, <<stage, res>>)

\* the running stage (the last of calls) reports res
Reported(res) == calls' = [calls EXCEPT ![Len(calls)][2] = res]

\* main returns ret_status and the process exits with it (lines 556, 564),
\* or sys.exit is called inside a stage
Finish(status) == pc' = "done" /\ exit' = <<status>>

Continue(next) == pc' = next /\ exit' = exit

\* an exception is raised inside the stage (and caught by its except clause)
Raise(stage) == raised' = raised \cup {stage}

(***************************************************************************)
(* get_cmd_argv (lines 219-249) and main's branch on its status (509,      *)
(* 549-550).  The try block raises (fault) only where it prints the        *)
(* argument values; sys.exit is not an Exception and leaves the process.   *)
(* main then creates the output directory, which is not a file.            *)
(***************************************************************************)
\* taking the three values without testing them for emptiness
get_cmd_argv_unchecked ==
    /\ pc = "argv"
    /\ IF Len(argv) = 3
       THEN /\ bucket' = Strip(Strip(argv[1], QUOTE), WHITESPACE)
            /\ url' = Strip(Strip(argv[2], QUOTE), WHITESPACE)
            /\ sheet' = Strip(Strip(argv[3], QUOTE), WHITESPACE)
            /\ Called("get_cmd_argv", "ok") /\ Continue("connect")
       ELSE /\ UNCHANGED fieldVars
            /\ Called("get_cmd_argv", "exit") /\ Finish(INVALID_ARG_ERR)
    /\ UNCHANGED <<histVars, runVars, response, extVars, fs, s3Vars, ops,
                   touched, raised, fs_before, put_response>>

get_cmd_argv ==
    /\ pc = "argv"
    /\ \E fault \in BOOLEAN :
        IF Len(argv) = 3
        THEN LET b == Strip(Strip(argv[1], QUOTE), WHITESPACE)
                 u == Strip(Strip(argv[2], QUOTE), WHITESPACE)
                 s == Strip(Strip(argv[3], QUOTE), WHITESPACE)
             IN  /\ bucket' = b /\ url' = u /\ sheet' = s
                 /\ IF fault
                    THEN /\ Raise("get_cmd_argv")
                         /\ Called("get_cmd_argv", "fail") /\ Finish(GENERIC_ERR)
                    ELSE /\ raised' = raised
                         /\ IF b # << >> /\ u # << >> /\ s # << >>
                            THEN /\ Called("get_cmd_argv", "ok")
                                 /\ Continue("connect")
                            ELSE /\ Called("get_cmd_argv", "exit")
                                 /\ Finish(INVALID_ARG_ERR)
        ELSE /\ ~fault
             /\ UNCHANGED <<fieldVars, raised>>
             /\ Called("get_cmd_argv", "exit") /\ Finish(INVALID_ARG_ERR)
    /\ UNCHANGED <<histVars, runVars, response, extVars, fs, s3Vars, ops, touched,
                   fs_before, put_response>>

(***************************************************************************)
(* connect (lines 259-276) and main's branch (516, 546-548): requests.get  *)
(* returns a response, whatever its status code, or raises.  It never      *)
(* returns None, so the else branch of line 268 is not taken.              *)
(***************************************************************************)
\* a request that is issued a second time when the first one raised
connect_retried ==
    /\ pc = "connect"
    /\ ops' = Append(ops, "get")
    /\ \/ \E r \in Responses :
            /\ response' = <<r>> /\ raised' = raised
            /\ Called("connect", "ok") /\ Continue("guard")
       \/ /\ response' = response /\ Raise("connect")
          /\ IF "connect" \in raised
             THEN Called("connect", "fail") /\ Finish(GENERIC_ERR)
             ELSE calls' = calls /\ Continue("connect")
    /\ UNCHANGED <<histVars, runVars, fieldVars, extVars, fs, s3Vars, touched,
                   fs_before, put_response>>

\* a request that, once it raised, is waited for without end
connect_waiting ==
    /\ pc = "connect"
    /\ ops' = Append(ops, "get")
    /\ \/ \E r \in Responses :
            /\ response' = <<r>> /\ raised' = raised
            /\ Called("connect", "ok") /\ Continue("guard")
       \/ /\ response' = response /\ Raise("connect")
          /\ Called("connect", "running") /\ Continue("waiting")
    /\ UNCHANGED <<histVars, runVars, fieldVars, extVars, fs, s3Vars, touched,
                   fs_before, put_response>>

connect ==
    /\ pc = "connect"
    /\ ops' = Append(ops, "get")
    /\ \/ \E r \in Responses :
            /\ response' = <<r>> /\ raised' = raised
            /\ Called("connect", "ok") /\ Continue("guard")
       \/ /\ response' = response /\ Raise("connect")
          /\ Called("connect", "fail") /\ Finish(GENERIC_ERR)
    /\ UNCHANGED <<histVars, runVars, fieldVars, extVars, fs, s3Vars, touched,
                   fs_before, put_response>>

\* main going on to the extension check whatever is_downloadable reported
is_downloadable_ignored ==
    /\ pc = "guard"
    /\ Called("is_downloadable",
              IF is_downloadable_ret(response[1]) THEN "ok" ELSE "fail")
    /\ Continue("ext")
    /\ UNCHANGED <<histVars, runVars, fieldVars, response, extVars, fs, s3Vars, ops,
                   touched, raised, fs_before, put_response>>

\* a guard that deletes the JSON file of an earlier run when it rejects
is_downloadable_cleanup ==
    /\ pc = "guard"
    /\ IF is_downloadable_ret(response[1])
       THEN /\ UNCHANGED <<fs, touched>>
            /\ Called("is_downloadable", "ok") /\ Continue("ext")
       ELSE /\ fs' = remove(fs, OUTPUT_FILE_JSON)
            /\ touched' = touched \cup {OUTPUT_FILE_JSON}
            /\ Called("is_downloadable", "fail") /\ Finish(GENERIC_ERR)
    /\ UNCHANGED <<histVars, runVars, fieldVars, response, extVars, s3Vars, ops,
                   raised, fs_before, put_response>>

(***************************************************************************)
(* is_downloadable (lines 285-303) and main's branch (519, 543-545).  A     *)
(* statement of the try block returns or raises; the except clause prints  *)
(* and the stage returns the ret_status it had reached.                    *)
(***************************************************************************)
is_downloadable ==
    /\ pc = "guard"
    /\ \E fault \in GuardFaults :
        /\ guard_fault_ok(response[1], fault)
        /\ raised' = IF fault = "none"
                      THEN raised
                      ELSE raised \cup {"is_downloadable"}
        /\ IF (IF fault = "none"
               THEN is_downloadable_ret(response[1])
               ELSE is_downloadable_raised_ret(response[1], fault))
           THEN Called("is_downloadable", "ok") /\ Continue("ext")
           ELSE Called("is_downloadable", "fail") /\ Finish(GENERIC_ERR)
    /\ UNCHANGED <<histVars, runVars, fieldVars, response, extVars, fs,
                   s3Vars, ops, touched, fs_before, put_response>>

\* the extension check without the membership test
ext_check_nonempty_only ==
    /\ pc = "ext"
    /\ file_ext' = FileExt(url)
    /\ ext_list' = get_extensions(response[1])
    /\ IF ext_list' # {}
       THEN /\ OUTPUT_FILE_PATH' = OUTPUT_FILE_PATH \o file_ext'
            /\ Called("get_extensions", "ok") /\ Continue("download")
       ELSE /\ OUTPUT_FILE_PATH' = OUTPUT_FILE_PATH
            /\ Called("get_extensions", "fail") /\ Finish(GENERIC_ERR)
    /\ UNCHANGED <<histVars, runVars, fieldVars, response, fs, s3Vars, ops, touched,
                   raised, fs_before, put_response>>

(***************************************************************************)
(* main, lines 520-530 and 540-542: the extension check.  When a statement *)
(* of get_extensions' try block raises (fault), the except clause (332-334) *)
(* prints and the empty extension_list of line 317 is returned.            *)
(***************************************************************************)
ext_check ==
    /\ pc = "ext"
    /\ file_ext' = FileExt(url)
    /\ \E fault \in BOOLEAN :
        /\ ext_list' = IF fault THEN {} ELSE get_extensions(response[1])
        /\ raised' = IF fault THEN raised \cup {"get_extensions"} ELSE raised
    /\ IF ext_list' # {} /\ file_ext' \in ext_list'
       THEN /\ OUTPUT_FILE_PATH' = OUTPUT_FILE_PATH \o file_ext'
            /\ Called("get_extensions", "ok") /\ Continue("download")
       ELSE /\ OUTPUT_FILE_PATH' = OUTPUT_FILE_PATH
            /\ Called("get_extensions", "fail") /\ Finish(GENERIC_ERR)
    /\ UNCHANGED <<histVars, runVars, fieldVars, response, fs, s3Vars, ops,
                   touched, fs_before, put_response>>

(***************************************************************************)
(* download (lines 338-380) and main's branch (533).                       *)
(***************************************************************************)
download ==
    /\ pc = "download"
    /\ \E fault \in DownloadFaults :
       \E k \in 0..(IF fault = "write" /\ Len(response[1].content) > 0
                    THEN Len(response[1].content) - 1 ELSE 0) :
        /\ download_fault_ok(fs, OUTPUT_FILE_PATH, response[1], fault)
        /\ LET r == download_run(fs, OUTPUT_FILE_PATH, response[1], fault, k)
           IN  /\ fs' = r.fs
               /\ fs_before' = fs
               /\ touched' = touched \cup r.touched
               /\ ops' = ops \o r.ops
               /\ raised' = IF r.exc THEN raised \cup {"download"} ELSE raised
               /\ IF r.ret
                  THEN Called("download", "ok") /\ Continue("parse")
                  ELSE Called("download", "fail") /\ Finish(GENERIC_ERR)
    /\ UNCHANGED <<histVars, runVars, fieldVars, response, extVars, s3Vars, put_response>>

(***************************************************************************)
(* parse_file (lines 382-445) and main's branch (536).                     *)
(***************************************************************************)
\* main going on to the upload whatever parse_file reported
parse_file_ignored ==
    /\ pc = "parse"
    /\ \E fault \in ParseFaults : \E k \in 0..(IF fault = "write" THEN 1 ELSE 0) :
        /\ fault # "none" => parse_writes(fs, OUTPUT_FILE_PATH, sheet)
        /\ LET r == parse_run(fs, OUTPUT_FILE_PATH, sheet, fault, k)
           IN  /\ fs' = r.fs
               /\ touched' = touched \cup r.touched
               /\ ops' = ops \o r.ops
               /\ raised' = IF r.exc THEN raised \cup {"parse_file"} ELSE raised
               /\ Called("parse_file", IF r.ret THEN "ok" ELSE "fail")
               /\ Continue("upload")
    /\ UNCHANGED <<histVars, runVars, fieldVars, response, extVars, s3Vars, fs_before,
                   put_response>>

\* a parse stage whose failure ends the run with a status of its own
parse_file_own_status ==
    /\ pc = "parse"
    /\ \E fault \in ParseFaults : \E k \in 0..(IF fault = "write" THEN 1 ELSE 0) :
        /\ fault # "none" => parse_writes(fs, OUTPUT_FILE_PATH, sheet)
        /\ LET r == parse_run(fs, OUTPUT_FILE_PATH, sheet, fault, k)
           IN  /\ fs' = r.fs
               /\ touched' = touched \cup r.touched
               /\ ops' = ops \o r.ops
               /\ raised' = IF r.exc THEN raised \cup {"parse_file"} ELSE raised
               /\ IF r.ret
                  THEN Called("parse_file", "ok") /\ Continue("upload")
                  ELSE Called("parse_file", "fail") /\ Finish(ATTRIBUTE_ERR)
    /\ UNCHANGED <<histVars, runVars, fieldVars, response, extVars, s3Vars, fs_before,
                   put_response>>

parse_file ==
    /\ pc = "parse"
    /\ \E fault \in ParseFaults : \E k \in 0..(IF fault = "write" THEN 1 ELSE 0) :
        /\ fault # "none" => parse_writes(fs, OUTPUT_FILE_PATH, sheet)
        /\ LET r == parse_run(fs, OUTPUT_FILE_PATH, sheet, fault, k)
           IN  /\ fs' = r.fs
               /\ touched' = touched \cup r.touched
               /\ ops' = ops \o r.ops
               /\ raised' = IF r.exc THEN raised \cup {"parse_file"} ELSE raised
               /\ IF r.ret
                  THEN Called("parse_file", "ok") /\ Continue("upload")
                  ELSE Called("parse_file", "fail") /\ Finish(GENERIC_ERR)
    /\ UNCHANGED <<histVars, runVars, fieldVars, response, extVars, s3Vars, fs_before,
                   put_response>>

(***************************************************************************)
(* upload_to_aws_s3 (lines 447-497) and main's branch (538-539), in its    *)
(* three calls of the storage backend.                                     *)
(***************************************************************************)
\* looking for the target among the names as they are spelled
bucket_listed_cased(names, target) == target \in names

\* lines 460-466: list the buckets and look for the target
bucket_listed(names, target) ==
    Lower(target) \in {Lower(each_bucket) : each_bucket \in names}

\* an uploader that never creates the bucket
upload_list_nocreate ==
    /\ pc = "upload"
    /\ ops' = Append(ops, "list")
    /\ \/ /\ Called("upload_to_aws_s3", "running")
          /\ raised' = raised
          /\ Continue("put")
       \/ /\ Raise("upload_to_aws_s3")
          /\ Called("upload_to_aws_s3", "fail") /\ Finish(GENERIC_ERR)
    /\ UNCHANGED <<histVars, runVars, fieldVars, response, extVars, fs,
                   s3Vars, touched, fs_before, put_response>>

upload_list ==
    /\ pc = "upload"
    /\ ops' = Append(ops, "list")
    /\ \/ /\ Called("upload_to_aws_s3", "running")
          /\ raised' = raised
          /\ IF ~bucket_listed(buckets, bucket)
             THEN Continue("create")
             ELSE Continue("put")
       \/ /\ Raise("upload_to_aws_s3")
          /\ Called("upload_to_aws_s3", "fail") /\ Finish(GENERIC_ERR)
    /\ UNCHANGED <<histVars, runVars, fieldVars, response, extVars, fs,
                   s3Vars, touched, fs_before, put_response>>

\* lines 467-478: create the bucket; the call returns the bucket, returns
\* None (sys.exit(S3_BUCKET_CR_ERR)) or raises
upload_create ==
    /\ pc = "create"
    /\ ops' = Append(ops, "create")
    /\ \/ /\ buckets' = buckets \cup {Lower(bucket)}
          /\ raised' = raised
          /\ calls' = calls /\ Continue("put")
       \/ /\ buckets' = buckets
          /\ raised' = raised
          /\ Reported("exit") /\ Finish(S3_BUCKET_CR_ERR)
       \/ /\ buckets' = buckets
          /\ Raise("upload_to_aws_s3")
          /\ Reported("fail") /\ Finish(GENERIC_ERR)
    /\ UNCHANGED <<histVars, runVars, fieldVars, response, extVars, fs,
                   blobs, touched, fs_before, put_response>>

\* reporting success for whatever put_object returned
upload_ret_any(resp) == TRUE

\* lines 487-491 and main 538-539: what the stage reports for the value
\* that put_object returned
upload_ret(resp) == resp = "ack"

\* lines 480-497: open the JSON file and put it; the call acknowledges
\* (only a bucket of exactly that name can), returns nothing or raises
upload_put ==
    /\ pc = "put"
    /\ IF ~isfile(fs, OUTPUT_FILE_JSON)
       THEN /\ ops' = ops /\ blobs' = blobs /\ put_response' = put_response
            /\ Raise("upload_to_aws_s3")
            /\ Reported("fail") /\ Finish(GENERIC_ERR)
       ELSE /\ ops' = Append(ops, "put")
            /\ \/ /\ Lower(bucket) \in buckets
                  /\ blobs' = (Lower(bucket) :> fs[OUTPUT_FILE_JSON]) @@ blobs
                  /\ put_response' = "ack" /\ raised' = raised
               \/ /\ blobs' = blobs
                  /\ put_response' = "empty" /\ raised' = raised
               \/ /\ blobs' = blobs
                  /\ put_response' = put_response
                  /\ Raise("upload_to_aws_s3")
            /\ IF "upload_to_aws_s3" \notin raised' /\ upload_ret(put_response')
               THEN Reported("ok") /\ Finish(SUCCESS)
               ELSE Reported("fail") /\ Finish(GENERIC_ERR)
    /\ UNCHANGED <<histVars, runVars, fieldVars, response, extVars, fs, buckets, touched,
                   fs_before>>

(***************************************************************************)
(* The script is started again: a new process, the files and the buckets   *)
(* are what the earlier runs left.                                         *)
(***************************************************************************)
\* the storage calls that the run issued for its bucket: the listing, and
\* the creation with its result (the bucket exists after it, or not)
RunS3Calls ==
    {c \in {"list", "create_ok", "create_fail"} :
        \/ c = "list" /\ \E i \in DOMAIN ops : ops[i] = "list"
        \/ /\ \E i \in DOMAIN ops : ops[i] = "create"
           /\ c = (IF \E b \in buckets : b = Lower(bucket)
                   THEN "create_ok" ELSE "create_fail")}

new_run ==
    /\ pc = "done"
    /\ run < MaxRuns
    /\ run' = run + 1
    /\ argv' \in ArgvSamples
    /\ bucket' = NoneStr /\ url' = NoneStr /\ sheet' = NoneStr
    /\ response' = << >>
    /\ OUTPUT_FILE_PATH' = BASE_PATH
    /\ file_ext' = << >>
    /\ ext_list' = {}
    /\ pc' = "argv"
    /\ exit' = << >>
    /\ calls' = << >>
    /\ ops' = << >>
    /\ touched' = {}
    /\ raised' = {}
    /\ fs_before' = << >>
    /\ put_response' = "unset"
    /\ prev_outcome' = IF calls[Len(calls)] = <<"connect", "fail">>
                       THEN <<"connect", exit[1]>>
                       ELSE << >>
    /\ s3_calls' = s3_calls \cup {<<Lower(bucket), c>> : c \in RunS3Calls}
    /\ UNCHANGED <<fs, s3Vars>>

Next ==
    \/ get_cmd_argv
    \/ connect
    \/ is_downloadable
    \/ ext_check
    \/ download
    \/ parse_file
    \/ upload_list
    \/ upload_create
    \/ upload_put
    \/ new_run

Spec == Init /\ [][Next]_vars

(***************************************************************************)
(* One run of the script, started on what earlier runs may have left: no   *)
(* files, or the raw file and the JSON file of an earlier run; no bucket,  *)
(* or the target under either spelling.  The process runs its stages one   *)
(* after the other and waits for nothing but its collaborators; every      *)
(* collaborator call returns or raises, so a stage that can run does run.  *)
(***************************************************************************)
LeftFiles ==
    {<< >>,
     ((BASE_PATH \o EXT_XLS) :> BODY_WB_B)
        @@ (OUTPUT_FILE_JSON :>
               json_dump(to_dict_records(
                   where_notnull(Workbook(BODY_WB_B)[SHEET_1]))))}

InitRun ==
    /\ argv \in ArgvSamples
    /\ bucket = NoneStr /\ url = NoneStr /\ sheet = NoneStr
    /\ response = << >>
    /\ OUTPUT_FILE_PATH = BASE_PATH
    /\ file_ext = << >>
    /\ ext_list = {}
    /\ fs \in LeftFiles
    /\ buckets \in {{}, {BUCKET_UC}, {BUCKET_LC}}
    /\ blobs = << >>
    /\ pc = "argv"
    /\ exit = << >>
    /\ run = 1
    /\ calls = << >>
    /\ ops = << >>
    /\ touched = {}
    /\ raised = {}
    /\ fs_before = << >>
    /\ put_response = "unset"
    /\ s3_calls = {}
    /\ prev_outcome = << >>

NextRun ==
    \/ get_cmd_argv
    \/ connect
    \/ is_downloadable
    \/ ext_check
    \/ download
    \/ parse_file
    \/ upload_list
    \/ upload_create
    \/ upload_put

FairSpec == InitRun /\ [][NextRun]_vars /\ WF_vars(NextRun)

(***************************************************************************)
(* The guard on every content type: the run is taken up after connect,     *)
(* with a response whose content type is any string of at most MaxCtLen    *)
(* characters of CtAlphabet, or is missing.                                *)
(***************************************************************************)
SeqsUpTo(A, n) == UNION {[1..k -> A] : k \in 0..n}

CtAlphabet == {"t", "e", "x", "h", "m", "l", "T"}

GuardHeaders ==
    {<< >>} \cup {("Content-Type" :> ct) : ct \in SeqsUpTo(CtAlphabet, MaxCtLen)}

\* the state of a run of the command line cmd after its first n stages
\* succeeded, before any file or bucket exists
AfterStages(cmd, n) ==
    /\ argv = cmd
    /\ bucket = Strip(Strip(cmd[1], QUOTE), WHITESPACE)
    /\ url = Strip(Strip(cmd[2], QUOTE), WHITESPACE)
    /\ sheet = Strip(Strip(cmd[3], QUOTE), WHITESPACE)
    /\ OUTPUT_FILE_PATH = BASE_PATH
    /\ file_ext = << >>
    /\ ext_list = {}
    /\ fs = << >>
    /\ buckets = {}
    /\ blobs = << >>
    /\ exit = << >>
    /\ run = 1
    /\ calls = [i \in 1..n |->
                  <<(<<"get_cmd_argv", "connect", "is_downloadable">>)[i], "ok">>]
    /\ ops = <<"get">>
    /\ touched = {}
    /\ raised = {}
    /\ fs_before = << >>
    /\ put_response = "unset"
    /\ s3_calls = {}
    /\ prev_outcome = << >>

InitGuard ==
    /\ AfterStages(<<BUCKET_LC, URL_XLS, SHEET_1>>, 2)
    /\ \E st \in {HTTP_OK, HTTP_NOT_FOUND}, h \in GuardHeaders,
          c \in {BODY_EMPTY, BODY_WB_A} :
            response = <<[status_code |-> st, headers |-> h, content |-> c]>>
    /\ pc = "guard"

NextGuard == is_downloadable

SpecGuard == InitGuard /\ [][NextGuard]_vars

(***************************************************************************)
(* The extension check on every url: the run is taken up after the guard,  *)
(* with the url that get_cmd_argv makes of any argument of at most         *)
(* MaxUrlLen characters of UrlAlphabet.                                    *)
(***************************************************************************)
UrlAlphabet == {".", "x", "l", "s", " ", "'"}

UrlArgs ==
    {a \in SeqsUpTo(UrlAlphabet, MaxUrlLen) :
        Strip(Strip(a, QUOTE), WHITESPACE) # << >>}

InitExt ==
    /\ \E a \in UrlArgs : AfterStages(<<BUCKET_LC, a, SHEET_1>>, 3)
    /\ response \in {<<[status_code |-> HTTP_OK,
                        headers |-> ("Content-Type" :> ct),
                        content |-> BODY_WB_A]>> : ct \in {CT_EXCEL_UC, CT_UNKNOWN}}
    /\ pc = "ext"

NextExt == ext_check

SpecExt == InitExt /\ [][NextExt]_vars

(***************************************************************************)
(* parse_file on every worksheet: the run is taken up after download       *)
(* wrote the body, a workbook whose sheet S1 has at most MaxRows rows of    *)
(* two cells, each a value or missing.  The raw file is the .xls file or,  *)
(* for a .json url, the file at the path of the JSON output.               *)
(***************************************************************************)
CellValues == {"a", "b", NaN}

SheetRows == SeqsUpTo([1..2 -> CellValues], MaxRows)

InitParse ==
    /\ \E rows \in SheetRows :
       \E src \in {<<URL_XLS, CT_EXCEL_UC, EXT_XLS>>,
                   <<URL_JSON, CT_JSON, EXT_JSON>>} :
         /\ argv = <<BUCKET_LC, src[1], SHEET_1>>
         /\ url = src[1]
         /\ response = <<[status_code |-> HTTP_OK,
                          headers |-> ("Content-Type" :> src[2]),
                          content |-> SheetBytes(rows)]>>
         /\ OUTPUT_FILE_PATH = BASE_PATH \o src[3]
         /\ file_ext = src[3]
         /\ ext_list = MimeRegistry(Lower(src[2]))
         /\ fs = ((BASE_PATH \o src[3]) :> SheetBytes(rows))
         /\ touched = {BASE_PATH \o src[3]}
    /\ bucket = BUCKET_LC
    /\ sheet = SHEET_1
    /\ buckets = {}
    /\ blobs = << >>
    /\ pc = "parse"
    /\ exit = << >>
    /\ run = 1
    /\ calls = [i \in 1..5 |-> <<STAGES[i], "ok">>]
    /\ ops = <<"get", "write_raw">>
    /\ raised = {}
    /\ fs_before = << >>
    /\ put_response = "unset"
    /\ s3_calls = {}
    /\ prev_outcome = << >>

NextParse == parse_file

SpecParse == InitParse /\ [][NextParse]_vars

(***************************************************************************)
(* Properties.                                                             *)
(***************************************************************************)
Range(seq) == {seq[i] : i \in DOMAIN seq}

Invoked(stage) == \E i \in DOMAIN calls : calls[i][1] = stage

\* what the stage reported: "ok", "fail", "exit" (sys.exit), "running"
StageResult(stage) ==
    IF Invoked(stage)
    THEN calls[CHOOSE i \in DOMAIN calls : calls[i][1] = stage][2]
    ELSE "none"

LastCall == IF calls = << >> THEN <<"none", "none">> ELSE calls[Len(calls)]

FileOps == {"remove", "write_raw", "write_json"}

\* C1: in every run the stages are invoked in the order arguments,
\* connect, is_downloadable, extension check, download, parse_file,
\* upload_to_aws_s3; a stage is invoked only if all earlier stages reported
\* success, and nothing is invoked after the first stage that fails.
C1_StagesInOrder ==
    /\ Len(calls) <= Len(STAGES)
    /\ \A i \in DOMAIN calls : calls[i][1] = STAGES[i]
    /\ \A i \in DOMAIN calls : i < Len(calls) => calls[i][2] = "ok"
    /\ LastCall[2] \in {"fail", "exit"} => pc = "done"

C1_Witness ==
    /\ pc = "done"
    /\ Len(calls) = 5
    /\ calls[5] = <<"download", "fail">>

\* C2: a run ends with the success status exactly when every stage
\* reported success and put_object returned a non-empty acknowledgement.
C2_SuccessOnlyIfAcknowledged ==
    pc = "done" =>
        (exit = <<SUCCESS>>
            <=> /\ Len(calls) = Len(STAGES)
                /\ \A i \in DOMAIN calls : calls[i][2] = "ok"
                /\ put_response = "ack")

C2_Witness ==
    /\ exit = <<SUCCESS>>
    /\ put_response = "ack"
    /\ Len(calls) = Len(STAGES)

\* the same letter, in either case
SameLetter(a, b) ==
    a = b \/ \E i \in 1..26 : {a, b} = {UPPER[i], LOWER[i]}

\* word occurs in s at some position, in any letter case
ContainsAnyCase(word, s) ==
    \E i \in 0..(Len(s) - Len(word)) :
        \A j \in 1..Len(word) : SameLetter(s[i + j], word[j])

\* C3: is_downloadable, when its try block raises nothing, reports
\* not-downloadable exactly when the content-type header is missing or
\* contains "text" or "html" in any letter case, whatever the status code
\* and the body of the response.
C3_GuardByContentType ==
    (pc # "guard" /\ Invoked("is_downloadable")
        /\ "is_downloadable" \notin raised) =>
        LET headers == response[1].headers
            missing == "Content-Type" \notin DOMAIN headers
        IN  (StageResult("is_downloadable") = "fail")
                <=> \/ missing
                    \/ ContainsAnyCase(<<"t","e","x","t">>, headers["Content-Type"])
                    \/ ContainsAnyCase(<<"h","t","m","l">>, headers["Content-Type"])

C3_Witness ==
    /\ StageResult("is_downloadable") = "fail"
    /\ "is_downloadable" \notin raised
    /\ "Content-Type" \in DOMAIN response[1].headers
    /\ response[1].headers["Content-Type"] = <<"T","e","x","t">>
    /\ response[1].status_code = HTTP_OK
    /\ response[1].content = BODY_WB_A

\* the substring after the final '.' of u, empty when u has no '.'
AfterLastDot(u) ==
    IF \E i \in 1..Len(u) : u[i] = "."
    THEN LET i == CHOOSE k \in 1..Len(u) :
                      u[k] = "." /\ \A j \in (k + 1)..Len(u) : u[j] # "."
         IN  SubSeq(u, i + 1, Len(u))
    ELSE << >>

\* C4: for every url the derived extension is '.' followed by exactly the
\* substring after the final '.'; a url without '.' yields '.' alone.
C4_ExtIsSuffixAfterLastDot ==
    Invoked("get_extensions") => file_ext = <<".">> \o AfterLastDot(url)

\* C5: if the content type implies no extension, or the extension of the
\* url is not among the implied ones, the run fails at the extension check
\* and download is never invoked.
C5_MismatchStopsBeforeDownload ==
    (Invoked("get_extensions") /\ (ext_list = {} \/ file_ext \notin ext_list))
        => /\ pc = "done"
           /\ exit = <<GENERIC_ERR>>
           /\ StageResult("get_extensions") = "fail"
           /\ ~Invoked("download")
           /\ Range(ops) \cap FileOps = {}

C5_Witness ==
    /\ Invoked("get_extensions")
    /\ ext_list # {}
    /\ file_ext \notin ext_list
    /\ pc = "done"

\* C6: a run that halts at the guard or at the extension check creates,
\* overwrites and deletes no local file.
C6_HaltWritesNoFile ==
    (pc = "done" /\ LastCall \in {<<"is_downloadable", "fail">>,
                                  <<"get_extensions", "fail">>})
        => /\ touched = {}
           /\ Range(ops) \cap FileOps = {}

C6_Witness ==
    /\ pc = "done"
    /\ LastCall = <<"is_downloadable", "fail">>
    /\ isfile(fs, OUTPUT_FILE_JSON)
    /\ isfile(fs, BASE_PATH \o EXT_XLS)

\* C7: download reports success only if the raw file then exists at the
\* target path with a non-zero size; with a zero-byte body or an exception
\* of the file system it reports failure and parse_file is never invoked.
C7_DownloadVerifiedOnDisk ==
    /\ (pc = "parse" /\ StageResult("download") = "ok")
          => /\ isfile(fs, OUTPUT_FILE_PATH)
             /\ Len(fs[OUTPUT_FILE_PATH]) > 0
    /\ (Invoked("download")
          /\ (Len(response[1].content) = 0 \/ "download" \in raised))
          => /\ StageResult("download") = "fail"
             /\ pc = "done"
             /\ ~Invoked("parse_file")
             /\ "excel" \notin Range(ops)

C7_Witness ==
    /\ StageResult("download") = "fail"
    /\ response[1].status_code = HTTP_OK
    /\ response[1].content = BODY_EMPTY
    /\ "download" \notin raised
    /\ isfile(fs, OUTPUT_FILE_PATH)

\* C8: when download runs on a path that holds the bytes of the response
\* (what a first run of download with these bytes left there) and the file
\* system raises nothing, the files are afterwards what they were: one file
\* at that path, with the same content, and no other file changed.
C8_DownloadIdempotent ==
    (/\ LastCall[1] = "download"
     /\ "download" \notin raised
     /\ response[1].status_code = HTTP_OK
     /\ isfile(fs_before, OUTPUT_FILE_PATH)
     /\ fs_before[OUTPUT_FILE_PATH] = response[1].content)
        => fs = fs_before

C8_Witness ==
    /\ LastCall = <<"download", "ok">>
    /\ run = 2
    /\ isfile(fs_before, OUTPUT_FILE_PATH)
    /\ fs_before[OUTPUT_FILE_PATH] = response[1].content
    /\ fs = fs_before

\* the worksheet that the run asks for exists in the downloaded workbook
\* and has a data row
SheetHasRows ==
    LET body == response[1].content
        name == Strip(sheet, WHITESPACE)
    IN  /\ IsWorkbook(body)
        /\ name \in DOMAIN Workbook(body)
        /\ Len(Workbook(body)[name].rows) >= 1

\* C9: the JSON output file is written in a run only if the requested
\* sheet is in the workbook and has a data row; otherwise parse_file
\* reports failure, the JSON file is not created or modified in that run
\* and no upload is attempted.
C9_JsonOnlyForSheetWithRows ==
    /\ (response # << >> /\ OUTPUT_FILE_JSON \in touched) => SheetHasRows
    /\ (Invoked("parse_file") /\ ~SheetHasRows)
          => /\ StageResult("parse_file") = "fail"
             /\ OUTPUT_FILE_JSON \notin touched
             /\ ~Invoked("upload_to_aws_s3")

\* C10: whenever the blob write is issued, a bucket of the target name
\* (compared as the uploader compares names, without case) exists, and a
\* creation call of the run precedes the blob write.
C10_BucketBeforePut ==
    /\ (pc = "put" \/ "put" \in Range(ops))
          => \E b \in buckets : Lower(b) = Lower(bucket)
    /\ \A i, j \in DOMAIN ops :
          (ops[i] = "create" /\ ops[j] = "put") => i < j

C10_Witness ==
    /\ "create" \in Range(ops)
    /\ "put" \in Range(ops)
    /\ put_response = "ack"

\* two bucket names that differ at most in the case of their letters
SameName(a, b) ==
    /\ Len(a) = Len(b)
    /\ \A i \in DOMAIN a : SameLetter(a[i], b[i])

NameExists == \E b \in buckets : SameName(b, bucket)

\* the listing of the run returned (lines 460-463 raised nothing)
ListingReturned ==
    \/ pc \in {"create", "put"}
    \/ (ops # << >> /\ ops[Len(ops)] \in {"create", "put"})

\* C11 as stated: the uploader issues a creation call iff no existing
\* bucket name equals the target without case, and over the runs against
\* one bucket name only the first run that reaches the uploader issues a
\* creation call.
C11_OnlyFirstUploaderRunCreates ==
    /\ pc = "create" => ~NameExists
    /\ (Invoked("upload_to_aws_s3") /\ pc # "create"
            /\ "create" \notin Range(ops)) => NameExists
    /\ (pc = "create" \/ "create" \in Range(ops))
          => <<Lower(bucket), "list">> \notin s3_calls

\* C11, amended: when the listing returns, the uploader issues a creation
\* call iff no listed name equals the target without case; after a run
\* whose creation call returned a bucket no later run against that name
\* issues a creation call.
C11_CreateIffNotListed ==
    /\ pc = "create" => ~NameExists
    /\ (ListingReturned /\ pc # "create" /\ "create" \notin Range(ops))
          => NameExists
    /\ (pc = "create" \/ "create" \in Range(ops))
          => <<Lower(bucket), "create_ok">> \notin s3_calls

C11_Witness ==
    /\ run = 2
    /\ <<Lower(bucket), "create_ok">> \in s3_calls
    /\ "put" \in Range(ops)
    /\ "create" \notin Range(ops)

\* the creation call of this run returned None or raised
CreateFailed == pc = "done" /\ "create_fail" \in RunS3Calls

\* C12: if creating the absent bucket fails, because the creation call
\* returns nothing or because it raises, the run ends with the
\* bucket-creation status and no blob write is attempted.
C12_CreateFailureExitsWithItsStatus ==
    CreateFailed =>
        /\ pc = "done"
        /\ exit = <<S3_BUCKET_CR_ERR>>
        /\ "put" \notin Range(ops)

\* the value as lines 226-228 trim it
Trimmed(value) == Strip(Strip(value, QUOTE), WHITESPACE)

BadArgv == Len(argv) # 3 \/ \E i \in 1..3 : Trimmed(argv[i]) = << >>

ExitStatuses == {SUCCESS, GENERIC_ERR, IMPORT_ERR, ATTRIBUTE_ERR,
                 INVALID_ARG_ERR, S3_BUCKET_CR_ERR}

\* a process that ended has exactly one status, one of the six return codes
OneExitStatus ==
    IF pc = "done"
    THEN Len(exit) = 1 /\ exit[1] \in ExitStatuses
    ELSE exit = << >>

\* C14: every run ends, and it ends with exactly one exit status, which is
\* one of success, generic error, import error, attribute error,
\* invalid-argument error and bucket-creation error.
C14_EveryRunEndsWithOneStatus ==
    /\ []OneExitStatus
    /\ (pc # "done") ~> (pc = "done")

C14_Witness ==
    /\ pc = "done"
    /\ exit = <<S3_BUCKET_CR_ERR>>
    /\ fs_before # << >>

\* how often the collaborator call op was issued in this run
Issued(op) == Cardinality({i \in DOMAIN ops : ops[i] = op})

\* C15: no stage is retried: in one run the HTTP GET, the write of the raw
\* file, the opening and the loading of the workbook, the write of the
\* JSON file, the bucket listing, the bucket creation and the blob write
\* are each issued at most once, no stage is invoked twice, and a stage
\* that raised or reported failure ends the run without success.
C15_NoStageRetried ==
    /\ \A op \in Range(ops) : Issued(op) = 1
    /\ \A i, j \in DOMAIN calls : calls[i][1] = calls[j][1] => i = j
    /\ (raised \cap {"connect", "download", "parse_file", "upload_to_aws_s3"}
            # {}
           \/ CreateFailed \/ put_response = "empty"
           \/ \E i \in DOMAIN calls : calls[i][2] \in {"fail", "exit"})
          => (pc = "done" /\ exit # <<SUCCESS>>)

C15_Witness ==
    /\ pc = "done"
    /\ raised = {"connect"}
    /\ ops = <<"get">>
    /\ exit = <<GENERIC_ERR>>

\* json.load of a dumped text: the list of the records, each the sequence
\* of its <<key, value>> items
RECURSIVE DecodeJson(_, _)
DecodeJson(text, acc) ==
    IF text = << >> THEN acc
    ELSE IF Head(text) \in {"[", "]", "}"} THEN DecodeJson(Tail(text), acc)
    ELSE IF Head(text) = "{" THEN DecodeJson(Tail(text), Append(acc, << >>))
    ELSE LET string == text[3] = "str"
             value == IF string THEN text[4]
                      ELSE IF text[3] = "null" THEN None ELSE NaN
             rest == SubSeq(text, IF string THEN 5 ELSE 4, Len(text))
         IN  DecodeJson(rest, [acc EXCEPT ![Len(acc)] =
                                     Append(@, <<text[1], value>>)])

\* the worksheet that the run was asked for, and the records in its JSON
\* output file
SourceSheet == Workbook(response[1].content)[sheet]

JsonRecords == DecodeJson(fs[OUTPUT_FILE_JSON], << >>)

\* C16: when parse_file succeeds on a worksheet of R data rows, the JSON
\* output holds exactly R records, record r made from row r (its cells
\* that are not missing are the values of record r, column by column), and
\* the keys of every record are exactly the column names of the header row.
C16_OneRecordPerRowInOrder ==
    StageResult("parse_file") = "ok" =>
        /\ Len(JsonRecords) = Len(SourceSheet.rows)
        /\ \A r \in DOMAIN JsonRecords :
              /\ Len(JsonRecords[r]) = Cardinality(Range(SourceSheet.header))
              /\ {item[1] : item \in Range(JsonRecords[r])}
                    = Range(SourceSheet.header)
              /\ \A c \in DOMAIN SourceSheet.header :
                    SourceSheet.rows[r][c] # NaN =>
                        <<SourceSheet.header[c], SourceSheet.rows[r][c]>>
                            \in Range(JsonRecords[r])

C16_Witness ==
    /\ StageResult("parse_file") = "ok"
    /\ Len(SourceSheet.rows) = 2
    /\ SourceSheet.rows[1] = <<"a", "b">>
    /\ SourceSheet.rows[2] = <<"b", "a">>
    /\ Len(JsonRecords) = 2

\* C17: in the JSON output of a successful parse_file a value is null
\* exactly where the cell of the worksheet was missing (NaN), and every
\* other value is the cell's own value.
C17_NullExactlyWhereMissing ==
    (StageResult("parse_file") = "ok"
        /\ Len(JsonRecords) = Len(SourceSheet.rows)) =>
        \A r \in DOMAIN SourceSheet.rows, c \in DOMAIN SourceSheet.header :
            LET cell == SourceSheet.rows[r][c]
                value == JsonRecords[r][c][2]
            IN  /\ Len(JsonRecords[r]) = Len(SourceSheet.header)
                /\ value = None <=> cell = NaN
                /\ cell # NaN => value = cell

C17_Witness ==
    /\ StageResult("parse_file") = "ok"
    /\ SourceSheet.rows = << <<NaN, "a">>, <<"b", NaN>> >>
    /\ JsonRecords[1][1][2] = None
    /\ JsonRecords[2][1][2] = "b"

\* C18 as stated: the outcome of a failed run carries the kind of the
\* stage that failed, so that two runs that failed in different stages end
\* with different outcomes (here: a run that failed in connect and the
\* next run, failed in another stage).
C18_OutcomeTellsFailedStage ==
    (pc = "done" /\ exit # <<SUCCESS>> /\ prev_outcome # << >>
        /\ prev_outcome[1] # LastCall[1])
       => prev_outcome[2] # exit[1]

\* C18, amended: a failed stage ends the run without success, but the exit
\* status does not tell which stage failed: every stage that reports a
\* failure ends the run with the generic status; only a bad command line
\* and a creation call that returned nothing end it with their own status.
C18_StageFailureIsGeneric ==
    /\ pc = "done" =>
          /\ LastCall[2] \in {"ok", "fail", "exit"}
          /\ LastCall[2] = "ok" =>
                (LastCall[1] = "upload_to_aws_s3" /\ exit = <<SUCCESS>>)
          /\ LastCall[2] = "fail" => exit = <<GENERIC_ERR>>
          /\ LastCall[2] = "exit" =>
                \/ LastCall[1] = "get_cmd_argv" /\ exit = <<INVALID_ARG_ERR>>
                \/ LastCall[1] = "upload_to_aws_s3"
                      /\ exit = <<S3_BUCKET_CR_ERR>>
    /\ prev_outcome # << >> => prev_outcome = <<"connect", GENERIC_ERR>>

C18_Witness ==
    /\ pc = "done"
    /\ LastCall = <<"parse_file", "fail">>
    /\ exit = <<GENERIC_ERR>>
    /\ prev_outcome = <<"connect", GENERIC_ERR>>

\* the run failed in parse_file or in upload_to_aws_s3
FailedAfterDownload ==
    /\ pc = "done"
    /\ LastCall[1] \in {"parse_file", "upload_to_aws_s3"}
    /\ LastCall[2] \in {"fail", "exit"}

\* C19: no rollback: when a run fails in parse_file or in
\* upload_to_aws_s3, the raw file that download wrote in this run is on
\* disk with the downloaded body, and the JSON file, if parse_file wrote it
\* completely, is on disk with the records of the requested sheet.
C19_ArtifactsLeftAsWritten ==
    FailedAfterDownload =>
        /\ isfile(fs, OUTPUT_FILE_PATH)
        /\ fs[OUTPUT_FILE_PATH] = response[1].content
        /\ StageResult("parse_file") = "ok" =>
              /\ isfile(fs, OUTPUT_FILE_JSON)
              /\ fs[OUTPUT_FILE_JSON] =
                    json_dump(to_dict_records(where_notnull(SourceSheet)))

\* C20: whenever a blob write is issued, parse_file succeeded in the same
\* run, and the JSON file that is read for the body, and the blob that an
\* acknowledged write stores, are the dump of the records of the sheet
\* downloaded in this run, not a JSON file that an earlier run left.
C20_UploadsThisRunsRecords ==
    "put" \in Range(ops) =>
        /\ StageResult("parse_file") = "ok"
        /\ "write_json" \in Range(ops)
        /\ isfile(fs, OUTPUT_FILE_JSON)
        /\ fs[OUTPUT_FILE_JSON] =
              json_dump(to_dict_records(where_notnull(SourceSheet)))
        /\ put_response = "ack" =>
              blobs[Lower(bucket)] =
                  json_dump(to_dict_records(where_notnull(SourceSheet)))

C20_Witness ==
    /\ run = 2
    /\ put_response = "ack"
    /\ isfile(fs_before, OUTPUT_FILE_JSON)
    /\ fs_before[OUTPUT_FILE_JSON] # fs[OUTPUT_FILE_JSON]
    /\ blobs[Lower(bucket)] = fs[OUTPUT_FILE_JSON]
    /\ OUTPUT_FILE_PATH # OUTPUT_FILE_JSON

\* the response of the run has a status code other than 200
NotOkResponse == response # << >> /\ response[1].status_code # HTTP_OK

\* C21: connect reports success for a response of any status code; when
\* the status code is not 200, download removes and writes no file and
\* reports failure, parse_file and upload_to_aws_s3 are never invoked, and
\* the run ends with a failure status.
C21_NotOkResponseStopsAtDownload ==
    /\ response # << >> => StageResult("connect") = "ok"
    /\ NotOkResponse =>
          /\ Invoked("download") =>
                /\ StageResult("download") = "fail"
                /\ fs = fs_before
          /\ touched = {}
          /\ Range(ops) \cap FileOps = {}
          /\ ~Invoked("parse_file")
          /\ ~Invoked("upload_to_aws_s3")
          /\ pc = "done" => exit = <<GENERIC_ERR>>

C21_Witness ==
    /\ NotOkResponse
    /\ pc = "done"
    /\ LastCall = <<"download", "fail">>
    /\ raised = {}
    /\ isfile(fs, OUTPUT_FILE_PATH)
    /\ fs[OUTPUT_FILE_PATH] # response[1].content

RaisingStages == {"connect", "is_downloadable", "get_extensions", "download",
                  "parse_file", "upload_to_aws_s3"}

\* C22: a stage in which an exception was raised has caught it and has
\* reported failure to main, and the run does not end with the success
\* status.
C22_RaisedStageReportsFailure ==
    \A stage \in raised \cap RaisingStages :
        /\ StageResult(stage) = "fail"
        /\ pc = "done"
        /\ exit # <<SUCCESS>>

=============================================================================
